---------------------------- MODULE Spec2Model ----------------------------
(***************************************************************************)
(* The navigation engine of src/nx.py: the module-level state, the main    *)
(* loop (one frame = sample the mouse, drain the event list, run the sleep *)
(* check, render, tick) and the four event handlers of the loop body.      *)
(*                                                                         *)
(* One step of the model is one iteration of the `for event in ...` loop,  *)
(* or the head or the tail of one iteration of the `while running` loop.   *)
(* Python's None is the empty tuple <<>> and a value v is <<v>>, so that   *)
(* hovered_icon = -1 (the profile button) stays distinct from None.        *)
(* brightness and volume_level are kept as the integer slider_x the code   *)
(* divides by 200 and by 100 (the float is slider_x / width exactly).      *)
(***************************************************************************)
EXTENDS Integers, Sequences, FiniteSets, TLC

VARIABLES
    simulation_on,        \* nx.py:64
    selected_icon,        \* nx.py:65
    hovered_icon,         \* nx.py:66, reset at nx.py:376
    power_pressed,        \* nx.py:67
    current_screen,       \* nx.py:68
    brightness,           \* nx.py:69, in 1/200ths
    volume_level,         \* nx.py:70, in 1/100ths
    album_images,         \* nx.py:71, the colours appended
    detached_joycons,     \* nx.py:74
    locked,               \* nx.py:77
    lock_time,            \* nx.py:78
    running,              \* nx.py:371
    dragging_brightness,  \* nx.py:372
    dragging_volume,      \* nx.py:373
    mx, my,               \* nx.py:375, pygame.mouse.get_pos() of this frame
    events, ei,           \* nx.py:378, the list pygame.event.get() returned
                          \* and how many of its events the loop has handled
    ticks,                \* pygame.time.get_ticks() at the last sleep check
    pc,                   \* "top" (374), "events" (378), "exit" (after 486)
    at_top                \* history: simulation_on and locked as they were
                          \* when the loop was last at its top (nx.py:374)

vars == <<simulation_on, selected_icon, hovered_icon, power_pressed,
          current_screen, brightness, volume_level, album_images,
          detached_joycons, locked, lock_time, running, dragging_brightness,
          dragging_volume, mx, my, events, ei, ticks, pc, at_top>>

---------------------------------------------------------------------------
(* Configuration, nx.py:32-35 and 106-109 *)
WIN_W == 600
WIN_H == 400
SCREEN_W == 460
SCREEN_H == 260
SCREEN_X == (WIN_W - SCREEN_W) \div 2
SCREEN_Y == 70
ICON_SIZE == 70
ICON_SPACING == 85
ICON_START_X == SCREEN_X + 30
ICON_START_Y == SCREEN_Y + 50
IDLE_MS == 30000

None == <<>>
Some(v) == <<v>>

(* ICONS with the first id spelt as draw_screen spells it. *)
ICONS_Game == << "game", "eshop", "album", "settings", "news", "profile",
                 "themes", "stats", "controllers", "system", "data",
                 "help" >>
ICONS == << "games", "eshop", "album", "settings", "news", "profile",
            "themes", "stats", "controllers", "system", "data", "help" >>
NumIcons == Len(ICONS)
IconId(i) == ICONS[i + 1]

SETTINGS_ICONS == << "brightness", "volume", "bluetooth", "calibration",
                     "internet" >>

---------------------------------------------------------------------------
(* Rectangles: pygame.Rect(left, top, width, height) and collidepoint,     *)
(* which takes the left and top edges and leaves out the right and bottom. *)
Rect(l, t, w, h) == [left |-> l, top |-> t, width |-> w, height |-> h]

Collide(r, x, y) ==
    /\ r.left <= x /\ x < r.left + r.width
    /\ r.top <= y /\ y < r.top + r.height

(* get_icon_rect with row and column taken the wrong way round. *)
get_icon_rect_Transposed(index, start_x, start_y, spacing, cols) ==
    LET row == index % cols
        col == index \div cols
    IN  Rect(start_x + col * spacing, start_y + row * spacing,
             ICON_SIZE, ICON_SIZE)

get_icon_rect(index, start_x, start_y, spacing, cols) ==
    LET row == index \div cols
        col == index % cols
    IN  Rect(start_x + col * spacing, start_y + row * spacing,
             ICON_SIZE, ICON_SIZE)

HomeIconRect(i) ==
    get_icon_rect(i, ICON_START_X, ICON_START_Y, ICON_SPACING, 6)
SettingsIconRect(i) ==
    get_icon_rect(i, SCREEN_X + 40, SCREEN_Y + 80, 90, 3)

JoyconRect == Rect(20, 100, 80, 200)
ProfileRect == Rect(15, 5, 40, 40)
BrightnessRect == Rect(SCREEN_X + 20, SCREEN_Y + 200, 200, 20)
VolumeRect == Rect(60, WIN_H - 35, 100, 20)
(* The home button one pixel short on each axis. *)
HomeBtnRect_Small == Rect(WIN_W \div 2 - 25 - 9, WIN_H - 25 - 9, 35, 35)
HomeBtnRect == Rect(WIN_W \div 2 - 25 - 9, WIN_H - 25 - 9, 36, 36)
PowerBtnRect == Rect(WIN_W - 100, WIN_H - 45, 40, 40)

Min(S) == CHOOSE a \in S : \A b \in S : a <= b
(* Clamp without the upper limit: min(hi, v) left out. *)
Clamp_NoUpper(lo, hi, v) == IF v < lo THEN lo ELSE v

Clamp(lo, hi, v) == IF v < lo THEN lo ELSE IF v > hi THEN hi ELSE v

(* `for i in range(len(ICONS)): if get_icon_rect(i).collidepoint: ... break` *)
HomeIconAt(x, y) ==
    LET hits == {i \in 0..(NumIcons - 1) : Collide(HomeIconRect(i), x, y)}
    IN  IF hits = {} THEN None ELSE Some(Min(hits))

SettingsIconAt(x, y) ==
    LET hits == {i \in 0..(Len(SETTINGS_ICONS) - 1) :
                    Collide(SettingsIconRect(i), x, y)}
    IN  IF hits = {} THEN None ELSE Some(Min(hits))


---------------------------------------------------------------------------
(* draw_screen, nx.py:156-198: the drawing procedure the if/elif chain     *)
(* runs for the current state, "none" when no branch matches (the surface  *)
(* keeps its background fill).                                             *)
Renderers == { "game", "home", "eshop", "album", "settings", "news",
               "profile", "themes", "stats", "controllers", "system",
               "data", "help", "gamechat" }

draw_screen ==
    IF ~simulation_on THEN "OFF"
    ELSE IF locked THEN "Locked"
    ELSE IF current_screen = "game" THEN "draw_game_demo"
    ELSE IF current_screen = "home" THEN "draw_home_menu"
    ELSE IF current_screen \in Renderers THEN "draw_" \o current_screen
    ELSE "none"

---------------------------------------------------------------------------
(* Events: what pygame.event.get() hands to the loop body. *)
Ev(t) == [type |-> t, key |-> ""]
Key(k) == [type |-> "KEYDOWN", key |-> k]
QUIT == Ev("QUIT")
DOWN == Ev("MOUSEBUTTONDOWN")
UP == Ev("MOUSEBUTTONUP")
MOTION == Ev("MOUSEMOTION")
K_c == "c"

(* The loop is at an event of type t: nx.py:378 and the elif chain. *)
At(t) ==
    /\ pc = "events"
    /\ ei < Len(events)
    /\ events[ei + 1].type = t

Init ==
    /\ simulation_on = TRUE
    /\ selected_icon = None
    /\ hovered_icon = None
    /\ power_pressed = FALSE
    /\ current_screen = "home"
    /\ brightness = 200
    /\ volume_level = 70
    /\ album_images = <<>>
    /\ detached_joycons = TRUE
    /\ locked = FALSE
    /\ lock_time = 0
    /\ running = TRUE
    /\ dragging_brightness = FALSE
    /\ dragging_volume = FALSE
    /\ mx = 0 /\ my = 0
    /\ events = <<>> /\ ei = 0
    /\ ticks = 0
    /\ pc = "top"
    /\ at_top = [on |-> TRUE, locked |-> FALSE]

(* LoopTop without the `while running` test. *)
LoopTop_IgnoresRunning(P, L) ==
    /\ pc = "top"
    /\ \E p \in P : mx' = p[1] /\ my' = p[2]
    /\ hovered_icon' = None
    /\ events' \in L
    /\ ei' = 0
    /\ pc' = "events"
    /\ UNCHANGED <<simulation_on, selected_icon, power_pressed,
                   current_screen, brightness, volume_level, album_images,
                   detached_joycons, locked, lock_time, running,
                   dragging_brightness, dragging_volume, ticks, at_top>>

(* nx.py:374-378: the while test, the mouse position, the hover reset and  *)
(* the event list of the frame.                                            *)
LoopTop(P, L) ==
    /\ pc = "top"
    /\ running
    /\ \E p \in P : mx' = p[1] /\ my' = p[2]
    /\ hovered_icon' = None
    /\ events' \in L
    /\ ei' = 0
    /\ pc' = "events"
    /\ UNCHANGED <<simulation_on, selected_icon, power_pressed,
                   current_screen, brightness, volume_level, album_images,
                   detached_joycons, locked, lock_time, running,
                   dragging_brightness, dragging_volume, ticks, at_top>>

(* nx.py:374: the while test fails once running is False. *)
Terminate ==
    /\ pc = "top"
    /\ ~running
    /\ pc' = "exit"
    /\ UNCHANGED <<simulation_on, selected_icon, hovered_icon, power_pressed,
                   current_screen, brightness, volume_level, album_images,
                   detached_joycons, locked, lock_time, running,
                   dragging_brightness, dragging_volume, mx, my, events, ei,
                   ticks, at_top>>

(* nx.py:379-380 *)
Quit ==
    /\ At("QUIT")
    /\ running' = FALSE
    /\ ei' = ei + 1
    /\ UNCHANGED <<simulation_on, selected_icon, hovered_icon, power_pressed,
                   current_screen, brightness, volume_level, album_images,
                   detached_joycons, locked, lock_time, dragging_brightness,
                   dragging_volume, mx, my, events, ticks, pc, at_top>>

(* KeyDown without the `simulation_on and not locked` test. *)
KeyDown_AlwaysCaptures(C, N) ==
    /\ At("KEYDOWN")
    /\ ei' = ei + 1
    /\ IF events[ei + 1].key = K_c
       THEN /\ Len(album_images) < N
            /\ \E color \in C : album_images' = Append(album_images, color)
       ELSE UNCHANGED album_images
    /\ UNCHANGED <<simulation_on, selected_icon, hovered_icon, power_pressed,
                   current_screen, brightness, volume_level,
                   detached_joycons, locked, lock_time, running,
                   dragging_brightness, dragging_volume, mx, my, events,
                   ticks, pc, at_top>>

(* nx.py:382-386; random.randint draws the colour from C, and the album    *)
(* holds at most N entries in the model.                                   *)
KeyDown(C, N) ==
    /\ At("KEYDOWN")
    /\ ei' = ei + 1
    /\ IF events[ei + 1].key = K_c /\ simulation_on /\ ~locked
       THEN /\ Len(album_images) < N
            /\ \E color \in C : album_images' = Append(album_images, color)
       ELSE UNCHANGED album_images
    /\ UNCHANGED <<simulation_on, selected_icon, hovered_icon, power_pressed,
                   current_screen, brightness, volume_level,
                   detached_joycons, locked, lock_time, running,
                   dragging_brightness, dragging_volume, mx, my, events,
                   ticks, pc, at_top>>


(* HitTests whose joy-con zone toggles both ways: the test of            *)
(* detached_joycons left out.                                              *)
HitTests_JoyconBothWays ==
    LET joy == Collide(JoyconRect, mx, my)
        s1 == IF Collide(ProfileRect, mx, my)
              THEN "profile" ELSE current_screen
        hit == IF s1 = "home" THEN HomeIconAt(mx, my) ELSE None
        s2 == IF hit # None THEN IconId(hit[1]) ELSE s1
        sel2 == IF hit # None THEN hit ELSE selected_icon
        home == Collide(HomeBtnRect, mx, my)
    IN  /\ detached_joycons' =
               IF joy THEN ~detached_joycons ELSE detached_joycons
        /\ dragging_brightness' =
               IF s2 = "settings" /\ Collide(BrightnessRect, mx, my)
               THEN TRUE ELSE dragging_brightness
        /\ dragging_volume' =
               IF Collide(VolumeRect, mx, my) THEN TRUE ELSE dragging_volume
        /\ current_screen' = IF home THEN "home" ELSE s2
        /\ selected_icon' = IF home THEN None ELSE sel2
        /\ power_pressed' =
               IF Collide(PowerBtnRect, mx, my) THEN TRUE ELSE power_pressed

(* HitTests whose home button leaves selected_icon as it is. *)
HitTests_HomeKeepsSelection ==
    LET joy == detached_joycons /\ Collide(JoyconRect, mx, my)
        s1 == IF Collide(ProfileRect, mx, my)
              THEN "profile" ELSE current_screen
        hit == IF s1 = "home" THEN HomeIconAt(mx, my) ELSE None
        s2 == IF hit # None THEN IconId(hit[1]) ELSE s1
        sel2 == IF hit # None THEN hit ELSE selected_icon
        home == Collide(HomeBtnRect, mx, my)
    IN  /\ detached_joycons' =
               IF joy THEN ~detached_joycons ELSE detached_joycons
        /\ dragging_brightness' =
               IF s2 = "settings" /\ Collide(BrightnessRect, mx, my)
               THEN TRUE ELSE dragging_brightness
        /\ dragging_volume' =
               IF Collide(VolumeRect, mx, my) THEN TRUE ELSE dragging_volume
        /\ current_screen' = IF home THEN "home" ELSE s2
        /\ selected_icon' = sel2
        /\ power_pressed' =
               IF Collide(PowerBtnRect, mx, my) THEN TRUE ELSE power_pressed

(* HitTests with the brightness slider live on every screen. *)
HitTests_DragAnyScreen ==
    LET joy == detached_joycons /\ Collide(JoyconRect, mx, my)
        s1 == IF Collide(ProfileRect, mx, my)
              THEN "profile" ELSE current_screen
        hit == IF s1 = "home" THEN HomeIconAt(mx, my) ELSE None
        s2 == IF hit # None THEN IconId(hit[1]) ELSE s1
        sel2 == IF hit # None THEN hit ELSE selected_icon
        home == Collide(HomeBtnRect, mx, my)
    IN  /\ detached_joycons' =
               IF joy THEN ~detached_joycons ELSE detached_joycons
        /\ dragging_brightness' =
               IF Collide(BrightnessRect, mx, my)
               THEN TRUE ELSE dragging_brightness
        /\ dragging_volume' =
               IF Collide(VolumeRect, mx, my) THEN TRUE ELSE dragging_volume
        /\ current_screen' = IF home THEN "home" ELSE s2
        /\ selected_icon' = IF home THEN None ELSE sel2
        /\ power_pressed' =
               IF Collide(PowerBtnRect, mx, my) THEN TRUE ELSE power_pressed

(* nx.py:394-438: the hit tests of a click taken while unlocked. They are *)
(* separate `if` statements run one after the other on the same point,     *)
(* each reading what the ones before it wrote. The settings sub-icon loop  *)
(* (413-419) only prints.                                                  *)
HitTests ==
    LET joy == detached_joycons /\ Collide(JoyconRect, mx, my)
        s1 == IF Collide(ProfileRect, mx, my)
              THEN "profile" ELSE current_screen
        hit == IF s1 = "home" THEN HomeIconAt(mx, my) ELSE None
        s2 == IF hit # None THEN IconId(hit[1]) ELSE s1
        sel2 == IF hit # None THEN hit ELSE selected_icon
        home == Collide(HomeBtnRect, mx, my)
    IN  /\ detached_joycons' =
               IF joy THEN ~detached_joycons ELSE detached_joycons
        /\ dragging_brightness' =
               IF s2 = "settings" /\ Collide(BrightnessRect, mx, my)
               THEN TRUE ELSE dragging_brightness
        /\ dragging_volume' =
               IF Collide(VolumeRect, mx, my) THEN TRUE ELSE dragging_volume
        /\ current_screen' = IF home THEN "home" ELSE s2
        /\ selected_icon' = IF home THEN None ELSE sel2
        /\ power_pressed' =
               IF Collide(PowerBtnRect, mx, my) THEN TRUE ELSE power_pressed

(* Unlock without the `continue`: the click goes on to the hit tests. *)
Unlock_FallThrough ==
    /\ locked' = FALSE
    /\ HitTests

(* nx.py:389-392: a click taken while locked unlocks, and `continue` ends  *)
(* the iteration.                                                          *)
Unlock ==
    /\ locked' = FALSE
    /\ UNCHANGED <<detached_joycons, dragging_brightness, dragging_volume,
                   current_screen, selected_icon, power_pressed>>

(* nx.py:388-438 *)
MouseDown ==
    /\ At("MOUSEBUTTONDOWN")
    /\ ei' = ei + 1
    /\ IF locked THEN Unlock ELSE HitTests /\ UNCHANGED locked
    /\ UNCHANGED <<simulation_on, hovered_icon, brightness, volume_level,
                   album_images, lock_time, running, mx, my, events, ticks,
                   pc, at_top>>

(* MouseUp that restores the initial brightness and volume on a toggle. *)
MouseUp_ResetsSettings ==
    /\ At("MOUSEBUTTONUP")
    /\ ei' = ei + 1
    /\ dragging_brightness' = FALSE
    /\ dragging_volume' = FALSE
    /\ IF power_pressed
       THEN /\ IF Collide(PowerBtnRect, mx, my)
               THEN /\ simulation_on' = ~simulation_on
                    /\ locked' = ~simulation_on'
                    /\ brightness' = 200
                    /\ volume_level' = 70
               ELSE UNCHANGED <<simulation_on, locked, brightness,
                                volume_level>>
            /\ power_pressed' = FALSE
       ELSE UNCHANGED <<simulation_on, locked, power_pressed, brightness,
                        volume_level>>
    /\ UNCHANGED <<selected_icon, hovered_icon, current_screen,
                   album_images, detached_joycons, lock_time, running, mx,
                   my, events, ticks, pc, at_top>>

(* MouseUp that toggles on any release inside the power button. *)
MouseUp_NoPressNeeded ==
    /\ At("MOUSEBUTTONUP")
    /\ ei' = ei + 1
    /\ dragging_brightness' = FALSE
    /\ dragging_volume' = FALSE
    /\ IF Collide(PowerBtnRect, mx, my)
       THEN /\ simulation_on' = ~simulation_on
            /\ locked' = ~simulation_on'
       ELSE UNCHANGED <<simulation_on, locked>>
    /\ power_pressed' = FALSE
    /\ UNCHANGED <<selected_icon, hovered_icon, current_screen, brightness,
                   volume_level, album_images, detached_joycons, lock_time,
                   running, mx, my, events, ticks, pc, at_top>>

(* nx.py:440-449 *)
MouseUp ==
    /\ At("MOUSEBUTTONUP")
    /\ ei' = ei + 1
    /\ dragging_brightness' = FALSE
    /\ dragging_volume' = FALSE
    /\ IF power_pressed
       THEN /\ IF Collide(PowerBtnRect, mx, my)
               THEN /\ simulation_on' = ~simulation_on
                    /\ locked' = ~simulation_on'
               ELSE UNCHANGED <<simulation_on, locked>>
            /\ power_pressed' = FALSE
       ELSE UNCHANGED <<simulation_on, locked, power_pressed>>
    /\ UNCHANGED <<selected_icon, hovered_icon, current_screen, brightness,
                   volume_level, album_images, detached_joycons, lock_time,
                   running, mx, my, events, ticks, pc, at_top>>

(* nx.py:451-472 *)
MouseMotion ==
    /\ At("MOUSEMOTION")
    /\ ei' = ei + 1
    /\ LET h1 == IF current_screen = "home"
                 THEN (IF HomeIconAt(mx, my) # None
                       THEN HomeIconAt(mx, my) ELSE hovered_icon)
                 ELSE IF current_screen = "settings"
                 THEN (IF SettingsIconAt(mx, my) # None
                       THEN Some(SettingsIconAt(mx, my)[1] + 100)
                       ELSE hovered_icon)
                 ELSE hovered_icon
       IN  hovered_icon' =
               IF Collide(ProfileRect, mx, my) THEN Some(-1) ELSE h1
    /\ brightness' = IF dragging_brightness
                     THEN Clamp(0, 200, mx - SCREEN_X - 20) ELSE brightness
    /\ volume_level' = IF dragging_volume
                       THEN Clamp(0, 100, mx - 60) ELSE volume_level
    /\ UNCHANGED <<simulation_on, selected_icon, power_pressed,
                   current_screen, album_images, detached_joycons, locked,
                   lock_time, running, dragging_brightness, dragging_volume,
                   mx, my, events, ticks, pc, at_top>>

(* nx.py:474-477: the sleep check at clock reading t. *)
SleepDue(t) == simulation_on /\ ~locked /\ t - lock_time > IDLE_MS

(* nx.py:474-486: the rest of the frame once the event list is drained:    *)
(* the sleep check, the drawing (which writes no state) and clock.tick,    *)
(* after which the clock reads dt more at the next check. clock.tick(60)   *)
(* only keeps a frame from being shorter than 1/60 s; T is the frame       *)
(* lengths tried and M the last clock reading of the model.                *)
EndFrame(T, M) ==
    /\ pc = "events"
    /\ ei = Len(events)
    /\ \E dt \in T : ticks + dt <= M /\ ticks' = ticks + dt
    /\ IF SleepDue(ticks')
       THEN locked' = TRUE /\ lock_time' = ticks'
       ELSE UNCHANGED <<locked, lock_time>>
    /\ events' = <<>>
    /\ ei' = 0
    /\ pc' = "top"
    /\ at_top' = [on |-> simulation_on, locked |-> locked']
    /\ UNCHANGED <<simulation_on, selected_icon, hovered_icon, power_pressed,
                   current_screen, brightness, volume_level, album_images,
                   detached_joycons, running, dragging_brightness,
                   dragging_volume, mx, my>>


---------------------------------------------------------------------------
(* Inputs. The mouse positions tried are points inside each region of the  *)
(* layout (for a home icon its centre and its first and last pixel), the   *)
(* event lists are short, and three specifications share the actions above *)
(* and differ in the inputs they draw.                                     *)
Center(r) == <<r.left + r.width \div 2, r.top + r.height \div 2>>
FirstIn(r) == <<r.left, r.top>>
LastIn(r) == <<r.left + r.width - 1, r.top + r.height - 1>>
IconPoints ==
    UNION {{Center(HomeIconRect(i)), FirstIn(HomeIconRect(i)),
            LastIn(HomeIconRect(i))} : i \in 0..(NumIcons - 1)}
P_none == <<590, 60>>
P_profile == Center(ProfileRect)
P_home == Center(HomeBtnRect)
P_power == Center(PowerBtnRect)
P_settings == Center(HomeIconRect(3))

Colors == {<<0, 0, 0>>, <<255, 255, 255>>}

(* Power, lock and sleep: frames of 15 s, few places to click. *)
MaxTicks == 75005
MaxAlbum == 3
LockPoints == {P_none, P_power, P_settings, P_home}
LockLists == { <<>>, <<DOWN>>, <<UP>>, <<DOWN, UP>>, <<MOTION>>,
               <<Key(K_c)>>, <<Key(K_c), Key(K_c)>>, <<Key("a")>>,
               <<QUIT>> }
LockTicks == {15000, 15001}

Next ==
    \/ LoopTop(LockPoints, LockLists)
    \/ Terminate
    \/ Quit
    \/ KeyDown(Colors, MaxAlbum)
    \/ MouseDown
    \/ MouseUp
    \/ MouseMotion
    \/ EndFrame(LockTicks, MaxTicks)

Spec == Init /\ [][Next]_vars

(* Navigation: every home icon and button, frames of 16 ms (no sleep). *)
NavMaxTicks == 64
NavPoints == IconPoints \cup {P_none, P_profile, P_home, P_power}
NavLists == { <<DOWN>>, <<DOWN, UP>>, <<MOTION>>, <<MOTION, DOWN>>,
              <<Key(K_c)>>, <<QUIT>> }
NavTicks == {16}

NextNav ==
    \/ LoopTop(NavPoints, NavLists)
    \/ Terminate
    \/ Quit
    \/ KeyDown(Colors, MaxAlbum)
    \/ MouseDown
    \/ MouseUp
    \/ MouseMotion
    \/ EndFrame(NavTicks, NavMaxTicks)

SpecNav == Init /\ [][NextNav]_vars

(* Sliders and joy-cons: the settings screen and its neighbours, with a    *)
(* point where the joy-con zone and the brightness slider overlap and      *)
(* points left and right of both sliders.                                  *)
UIMaxTicks == 96
P_joycon == Center(JoyconRect)
P_overlap == <<95, 280>>
P_bright == <<190, 280>>
P_volume == <<110, 375>>
P_left == <<0, 200>>
P_right == <<599, 200>>
P_home_first == <<266, 366>>
P_home_last == <<301, 401>>
UIPoints == {P_settings, P_home, P_home_first, P_home_last, P_power,
             P_joycon, P_overlap, P_bright, P_volume, P_left, P_right}
UILists == { <<DOWN>>, <<UP>>, <<MOTION>>, <<DOWN, MOTION>>, <<DOWN, UP>>,
             <<Key(K_c)>>, <<QUIT>> }
UITicks == {16}

NextUI ==
    \/ LoopTop(UIPoints, UILists)
    \/ Terminate
    \/ Quit
    \/ KeyDown(Colors, MaxAlbum)
    \/ MouseDown
    \/ MouseUp
    \/ MouseMotion
    \/ EndFrame(UITicks, UIMaxTicks)

SpecUI == Init /\ [][NextUI]_vars

(* Termination: QUIT alone, before and after other events of the frame.    *)
(* A frame is started only while the model's clock has room for it to end, *)
(* so that the last clock reading never stops a frame half way. The loop   *)
(* is one thread and none of its calls blocks (event.get returns at once,  *)
(* clock.tick within a frame's time), so a step that can be taken is       *)
(* taken: weak fairness of the next-step action.                           *)
QuitMaxTicks == 64
QuitPoints == {P_none, P_power, P_home, P_settings}
QuitLists == { <<>>, <<DOWN>>, <<UP>>, <<MOTION>>, <<Key(K_c)>>, <<QUIT>>,
               <<QUIT, DOWN>>, <<DOWN, QUIT, UP>>, <<QUIT, QUIT>> }
QuitTicks == {16}

NextQuit ==
    \/ /\ \E dt \in QuitTicks : ticks + dt <= QuitMaxTicks
       /\ LoopTop(QuitPoints, QuitLists)
    \/ Terminate
    \/ Quit
    \/ KeyDown(Colors, MaxAlbum)
    \/ MouseDown
    \/ MouseUp
    \/ MouseMotion
    \/ EndFrame(QuitTicks, QuitMaxTicks)

SpecQuit == Init /\ [][NextQuit]_vars /\ WF_vars(NextQuit)

---------------------------------------------------------------------------
(* Properties. *)

(* The event list of the frame is drained: the sleep check is next. *)
FrameDone == pc = "events" /\ ei = Len(events)

(* The loop has just handled the n-th event of the frame. *)
Handled(n) == pc = "events" /\ ei = n

InputTypes == {"KEYDOWN", "MOUSEBUTTONDOWN", "MOUSEBUTTONUP", "MOUSEMOTION"}
HadInput == \E j \in 1..Len(events) : events[j].type \in InputTypes

AtPower == Collide(PowerBtnRect, mx, my)

(* The rectangle of home icon i as the layout rule gives it: six columns,  *)
(* origin (SCREEN_X + 30, SCREEN_Y + 50), spacing 85, size 70.             *)
C1_Rect(i) ==
    [left |-> SCREEN_X + 30 + (i % 6) * 85,
     top |-> SCREEN_Y + 50 + (i \div 6) * 85,
     width |-> 70, height |-> 70]

(* C1: for every icon index i in 0..11, a click inside the rectangle of    *)
(* icon i while powered on, unlocked and on the home screen sets           *)
(* current_screen to ICONS[i].id and selected_icon to i.                   *)
C1_IconClick ==
    [][ \A i \in 0..11 :
          (/\ At("MOUSEBUTTONDOWN")
           /\ simulation_on /\ ~locked /\ current_screen = "home"
           /\ Collide(C1_Rect(i), mx, my))
          => (current_screen' = ICONS[i + 1] /\ selected_icon' = Some(i))
      ]_vars

(* C1's case: the first frame's click in the cell of row 0, column 1 has   *)
(* been handled and selected index 1, the eShop.                           *)
C1_Witness ==
    /\ Handled(1) /\ events[1] = DOWN /\ ticks = 0
    /\ mx \in 185..254 /\ my \in 120..189
    /\ simulation_on /\ ~locked
    /\ current_screen = "eshop" /\ selected_icon = Some(1)

(* C2: lock round trip. A frame that starts powered on and locked and      *)
(* handles one click ends powered on and unlocked, on the screen it showed *)
(* before, with brightness, volume, album, selected icon and joy-con state *)
(* as they were: neither the click nor the end of that frame changes them. *)
C2_LockRoundTrip ==
    [][ (at_top.on /\ at_top.locked /\ events = <<DOWN>>
            /\ (At("MOUSEBUTTONDOWN") \/ FrameDone))
        => /\ simulation_on' /\ ~locked'
           /\ UNCHANGED <<current_screen, brightness, volume_level,
                          album_images, selected_icon, detached_joycons>>
      ]_vars

(* C3: the idle timer resets on input. The lock engages at the end of a    *)
(* frame that handled a key or pointer event only if that frame lasted the *)
(* whole idle time (the event is younger than the frame).                  *)
C3_IdleResetsOnInput ==
    [][ (FrameDone /\ ~locked /\ locked' /\ HadInput)
        => ticks' - ticks >= IDLE_MS ]_vars

(* C4: a click taken while locked clears locked and nothing else: screen,  *)
(* selected icon, joy-cons, both drag flags, the power-pressed flag and    *)
(* every other field keep their values, wherever the pointer is.           *)
C4_UnlockSwallowsClick ==
    [][ (At("MOUSEBUTTONDOWN") /\ locked)
        => /\ ~locked'
           /\ UNCHANGED <<current_screen, selected_icon, detached_joycons,
                          dragging_brightness, dragging_volume,
                          power_pressed, simulation_on, hovered_icon,
                          brightness, volume_level, album_images, lock_time,
                          running>>
      ]_vars

(* C4's case: the sleep lock was on, the click landed on the power button, *)
(* and the press was not taken.                                            *)
C4_Witness ==
    /\ Handled(1) /\ events[1] = DOWN
    /\ at_top.on /\ at_top.locked
    /\ AtPower
    /\ ~locked /\ ~power_pressed

(* C5: a frame that starts powered on (locked or not) and handles one      *)
(* press and release on the power button leaves the device off and         *)
(* unlocked.                                                               *)
C5_PowerOff ==
    (Handled(2) /\ events = <<DOWN, UP>> /\ AtPower /\ at_top.on)
        => (~simulation_on /\ ~locked)

(* C6: a frame that starts powered off and handles one press and release   *)
(* on the power button leaves the device on.                               *)
C6_PowerOn ==
    (Handled(2) /\ events = <<DOWN, UP>> /\ AtPower /\ ~at_top.on)
        => simulation_on

(* C7: the device is never locked while powered off. *)
C7_LockedImpliesOn == locked => simulation_on

(* C8: a click taken while unlocked acts for one region only, the first   *)
(* that contains the point in the order joy-con zone, profile button, home *)
(* icons, brightness slider, volume slider, home button, power button; in  *)
(* particular a click in both the joy-con zone and the brightness slider   *)
(* on the settings screen toggles the joy-cons and starts no drag.         *)
C8_FirstRegionOnly ==
    [][ LET joy == detached_joycons /\ Collide(JoyconRect, mx, my)
            prof == Collide(ProfileRect, mx, my)
            icon == current_screen = "home" /\ HomeIconAt(mx, my) # None
            bri == /\ current_screen = "settings"
                   /\ Collide(BrightnessRect, mx, my)
            vol == Collide(VolumeRect, mx, my)
            home == Collide(HomeBtnRect, mx, my)
            pow == Collide(PowerBtnRect, mx, my)
            first == IF joy THEN "joy" ELSE IF prof THEN "prof"
                     ELSE IF icon THEN "icon" ELSE IF bri THEN "bri"
                     ELSE IF vol THEN "vol" ELSE IF home THEN "home"
                     ELSE IF pow THEN "pow" ELSE "none"
        IN  (At("MOUSEBUTTONDOWN") /\ ~locked) =>
              /\ first # "joy" => UNCHANGED detached_joycons
              /\ first \notin {"prof", "icon", "home"} =>
                    UNCHANGED <<current_screen, selected_icon>>
              /\ first # "bri" => UNCHANGED dragging_brightness
              /\ first # "vol" => UNCHANGED dragging_volume
              /\ first # "pow" => UNCHANGED power_pressed
              /\ first = "joy" => detached_joycons' = ~detached_joycons
      ]_vars

(* C9: whenever the device is on and unlocked, draw_screen has a drawing   *)
(* procedure for current_screen, so every home icon leads to a screen that *)
(* is drawn.                                                               *)
C9_EveryScreenRendered ==
    (simulation_on /\ ~locked) => draw_screen # "none"

(* C10: a capture key handled while on and unlocked appends one entry to   *)
(* the end of the album and changes nothing else; handled while off or     *)
(* locked it changes nothing; and nothing else ever changes the album, so  *)
(* its length counts the captures taken and never shrinks.                 *)
C10_Capture ==
    [][ LET capture == /\ At("KEYDOWN") /\ events[ei + 1].key = K_c
                       /\ simulation_on /\ ~locked
            rest == <<simulation_on, selected_icon, hovered_icon,
                      power_pressed, current_screen, brightness,
                      volume_level, detached_joycons, locked, lock_time,
                      running, dragging_brightness, dragging_volume>>
        IN  /\ capture =>
                /\ Len(album_images') = Len(album_images) + 1
                /\ SubSeq(album_images', 1, Len(album_images)) = album_images
                /\ UNCHANGED rest
            /\ (At("KEYDOWN") /\ ~capture) =>
                UNCHANGED <<album_images, rest>>
            /\ (album_images' # album_images) => capture
      ]_vars

(* C10's case: three captures taken, the third just handled. *)
C10_Witness ==
    /\ pc = "events" /\ ei >= 1 /\ events[ei] = Key(K_c)
    /\ simulation_on /\ ~locked
    /\ Len(album_images) = 3

(* C11: no power toggle changes brightness, volume or the album: a press  *)
(* or a release of the mouse button, the power button's included, leaves   *)
(* all three as they were, so powering on and off again does too.          *)
C11_PowerKeepsSettings ==
    [][ (At("MOUSEBUTTONDOWN") \/ At("MOUSEBUTTONUP")
            \/ simulation_on' # simulation_on)
        => UNCHANGED <<brightness, volume_level, album_images>> ]_vars

(* C11's case: a release on the power button has just switched the device  *)
(* off, after the brightness was dragged away from its initial value.      *)
C11_Witness ==
    /\ Handled(2) /\ events = <<DOWN, UP>> /\ AtPower
    /\ at_top.on /\ ~simulation_on
    /\ brightness # 200

(* The slider value the clamp law gives for pointer x on a slider that    *)
(* starts at origin and is width wide, as a count of 1/width steps:        *)
(* clamp((x - origin) / width, 0, 1) * width.                              *)
C12_Law(x, origin, width) ==
    IF x - origin <= 0 THEN 0
    ELSE IF x - origin >= width THEN width
    ELSE x - origin

(* C12: a mouse motion handled during a brightness drag sets brightness to *)
(* clamp((mx - (SCREEN_X + 20)) / 200, 0, 1), and during a volume drag     *)
(* sets volume to clamp((mx - 60) / 100, 0, 1); a pointer further left     *)
(* never gives a larger value; and both values are within [0, 1] in every  *)
(* reachable state.                                                        *)
C12_ClampLaw ==
    /\ [](brightness \in 0..200 /\ volume_level \in 0..100)
    /\ [][ At("MOUSEMOTION") =>
            /\ dragging_brightness =>
                /\ brightness' = C12_Law(mx, SCREEN_X + 20, 200)
                /\ \A x \in (mx - 300)..mx :
                      C12_Law(x, SCREEN_X + 20, 200) <= brightness'
            /\ dragging_volume =>
                /\ volume_level' = C12_Law(mx, 60, 100)
                /\ \A x \in (mx - 300)..mx :
                      C12_Law(x, 60, 100) <= volume_level'
         ]_vars

(* C12's case: with both drags under way a motion at the left edge of the  *)
(* window, left of both sliders, has set both values to 0.                 *)
C12_Witness ==
    /\ pc = "events" /\ ei >= 1 /\ events[ei] = MOTION
    /\ dragging_brightness /\ dragging_volume
    /\ mx = 0
    /\ brightness = 0 /\ volume_level = 0

(* C13: after every step that changes current_screen neither              *)
(* selected_icon nor hovered_icon holds a value left over from the         *)
(* previous screen: hovered_icon is None, and selected_icon is None or was *)
(* set by that very step (the icon click's own selection).                 *)
C13_TransitionResets ==
    [][ current_screen' # current_screen
          => /\ hovered_icon' = None
             /\ selected_icon' = None \/ selected_icon' # selected_icon ]_vars

(* The home button's rectangle: 36 by 36 at (266, 366). *)
C14_Rect == [left |-> 266, top |-> 366, width |-> 36, height |-> 36]

(* C14: a click inside the home button taken while powered on and          *)
(* unlocked, whatever the screen, sets current_screen to "home" and        *)
(* selected_icon to None and leaves power, lock, brightness, volume, the   *)
(* album and the joy-con state unchanged.                                  *)
C14_HomeButton ==
    [][ (/\ At("MOUSEBUTTONDOWN")
         /\ simulation_on /\ ~locked
         /\ Collide(C14_Rect, mx, my))
        => /\ current_screen' = "home" /\ selected_icon' = None
           /\ UNCHANGED <<simulation_on, locked, brightness, volume_level,
                          album_images, detached_joycons>>
      ]_vars

(* C14's case: a click on the last pixel of the home button has been       *)
(* handled and went home. The brightness drag still under way began on the *)
(* settings screen, the screen the click left, and the brightness, volume  *)
(* and joy-con state it kept are not the initial ones.                     *)
C14_Witness ==
    /\ Handled(1) /\ events = <<DOWN>>
    /\ mx = 301 /\ my = 401
    /\ at_top.on /\ ~at_top.locked
    /\ dragging_brightness
    /\ brightness # 200 /\ volume_level # 70 /\ ~detached_joycons
    /\ current_screen = "home" /\ selected_icon = None
    /\ simulation_on /\ ~locked

(* C15: once a QUIT event has been handled the loop starts no further     *)
(* frame, whatever events follow it in the frame's list, and the program   *)
(* reaches the end of the loop.                                            *)
C15_QuitTerminates ==
    /\ [][ ~running => ~running' /\ ~(pc = "top" /\ pc' = "events") ]_vars
    /\ (~running ~> pc = "exit")

(* C15's case: the loop has ended after a frame other than the first, with *)
(* a press of the power button taken along the way.                        *)
C15_Witness ==
    /\ pc = "exit" /\ ~running
    /\ ticks > 16 /\ power_pressed

(* C16: while the device is off no step changes current_screen,           *)
(* selected_icon, the joy-con state, brightness or volume: clicks on the   *)
(* icons, the profile button, the home button, the joy-con zone and the    *)
(* sliders are no-ops as long as simulation_on is false.                   *)
C16_OffIsInert ==
    [][ ~simulation_on
          => UNCHANGED <<current_screen, selected_icon, detached_joycons,
                         brightness, volume_level>> ]_vars

(* The brightness slider's rectangle: 200 by 20 at (90, 270). *)
C17_Rect == [left |-> 90, top |-> 270, width |-> 200, height |-> 20]

(* C17: brightness changes only inside a drag session. Only a mouse motion *)
(* handled while the brightness drag is under way changes brightness (and  *)
(* only one handled during the volume drag changes volume); the brightness *)
(* drag begins only with a press inside the slider taken while unlocked on *)
(* the settings screen; and every release, wherever the pointer is, ends   *)
(* both drags.                                                             *)
C17_DragSession ==
    [][ /\ brightness' # brightness
            => At("MOUSEMOTION") /\ dragging_brightness
        /\ volume_level' # volume_level
            => At("MOUSEMOTION") /\ dragging_volume
        /\ (~dragging_brightness /\ dragging_brightness')
            => /\ At("MOUSEBUTTONDOWN") /\ ~locked
               /\ current_screen = "settings"
               /\ Collide(C17_Rect, mx, my)
        /\ At("MOUSEBUTTONUP")
            => ~dragging_brightness' /\ ~dragging_volume'
      ]_vars

(* C17's case: a press inside the slider on the settings screen and the    *)
(* motion after it, in one frame, have set brightness to the pointer's     *)
(* place, half way along the slider.                                       *)
C17_Witness ==
    /\ Handled(2) /\ events = <<DOWN, MOTION>>
    /\ mx = 190 /\ my = 280
    /\ current_screen = "settings" /\ dragging_brightness
    /\ brightness = 100

(* C18: the idle check runs once per frame, after the frame's events: it  *)
(* alone engages the lock outside the power toggle, and at the end of a    *)
(* frame that is powered on and unlocked it sets locked exactly when the   *)
(* time elapsed since lock_time is at least 30000 ms (at 30000 it locks,   *)
(* at 29999 it does not); powered off it does not set locked.              *)
C18_IdleCheck ==
    [][ /\ (~locked /\ locked' /\ ~At("MOUSEBUTTONUP")) => FrameDone
        /\ (FrameDone /\ ~locked)
            => (locked' <=> (simulation_on /\ ticks' - lock_time >= 30000))
      ]_vars

(* The power button's rectangle: 40 by 40 at (500, 355). *)
C19_Rect == [left |-> 500, top |-> 355, width |-> 40, height |-> 40]

(* C19: power toggles only on a release inside the power button that       *)
(* follows a press inside it taken while unlocked. The press is remembered *)
(* only from such a press and until the next release; a release inside     *)
(* with the press remembered toggles simulation_on; any release forgets    *)
(* the press, so a release outside cancels it; and no other step, a        *)
(* release inside without a press included, changes simulation_on.         *)
C19_PowerToggle ==
    [][ /\ simulation_on' # simulation_on
            => /\ At("MOUSEBUTTONUP") /\ power_pressed
               /\ Collide(C19_Rect, mx, my)
        /\ (At("MOUSEBUTTONUP") /\ power_pressed
                /\ Collide(C19_Rect, mx, my))
            => simulation_on' = ~simulation_on
        /\ (~power_pressed /\ power_pressed')
            => /\ At("MOUSEBUTTONDOWN") /\ ~locked
               /\ Collide(C19_Rect, mx, my)
        /\ At("MOUSEBUTTONUP") => ~power_pressed'
        /\ (power_pressed /\ ~power_pressed') => At("MOUSEBUTTONUP")
      ]_vars

(* C19's case: the press was taken in an earlier frame, and this frame's   *)
(* release inside the power button has switched the device off.            *)
C19_Witness ==
    /\ Handled(1) /\ events = <<UP>>
    /\ Collide(C19_Rect, mx, my)
    /\ at_top.on /\ ~at_top.locked
    /\ ~simulation_on /\ ~power_pressed

(* C20: whenever the home screen is the current screen no icon is         *)
(* selected.                                                               *)
C20_HomeHasNoSelection == current_screen = "home" => selected_icon = None

(* C20's case: a click on the home button has brought the home screen back *)
(* from the settings screen, where the brightness drag still under way was *)
(* begun and where icon 3 was the selected one.                            *)
C20_Witness ==
    /\ Handled(1) /\ events = <<DOWN>>
    /\ Collide(HomeBtnRect, mx, my)
    /\ dragging_brightness
    /\ current_screen = "home" /\ selected_icon = None

(* The joy-con zone: 80 by 200 at (20, 100). *)
C21_Rect == [left |-> 20, top |-> 100, width |-> 80, height |-> 200]

C22_ScreenIds ==
    /\ current_screen \in {"home", "games", "eshop", "album", "settings",
                           "news", "profile", "themes", "stats",
                           "controllers", "system", "data", "help"}
    /\ current_screen \notin {"game", "gamechat", "lock"}

(* C22's case: a click on icon 0 has been handled and the current screen   *)
(* is "games", the id next to the unreachable "game".                      *)
C22_Witness ==
    /\ Handled(1) /\ events = <<DOWN>>
    /\ Collide(HomeIconRect(0), mx, my)
    /\ current_screen = "games" /\ selected_icon = Some(0)

===========================================================================
